---- MODULE Spec2Model ----
(***************************************************************************)
(* A model of the curve pipeline of hystan: preprocess.py (split, merge,   *)
(* align) and features.py (the scalar metrics).                            *)
(*                                                                         *)
(* A DataFrame is a record [columns, rows, index]: columns is the set of   *)
(* column names, rows the sequence of rows in positional (iloc) order,     *)
(* each row a function from column name to cell, and index the sequence of *)
(* row labels.  read_csv and reset_index(drop=True) give the RangeIndex    *)
(* 0, 1, ..; dropna() in process_csv removes rows and keeps the labels of  *)
(* the others.  Labels are 0-based as in the source, positions into rows   *)
(* are 1-based.                                                            *)
(*                                                                         *)
(* Sample values are integers.  They count multiples of half the epsilon   *)
(* of compute_y_ratio (epsilon = 1e-10 is 2 units), so that values with a  *)
(* magnitude below epsilon other than 0 exist.  No other operation reads   *)
(* the scale.  A float result that is a quotient is kept as the pair       *)
(* [n, d]: d = 0 stands for a non-finite float (inf or nan).               *)
(***************************************************************************)
EXTENDS Integers, Sequences, FiniteSets, TLC

VARIABLES curve, df1, df2, pc, call, out

vars == <<curve, df1, df2, pc, call, out>>

(* ---------------------------------------------------------------- bounds *)

\* longest raw curve drawn in Init
MaxLen == 3
\* field values are drawn from 0..MaxField
MaxField == 2
\* most rows dropna() removes from a file
MaxDropped == 1
\* fractions are multiples of 1/FractionDen
FractionDen == 4

(* ------------------------------------------------------------- constants *)

\* the near-zero threshold of compute_y_ratio, in value units (see above)
epsilon == 2


\* the value column every call names
y_column == "Rh"

\* the names a field column goes by: the default of interpolate_and_fill and
\* the default of split_dataframe_at_turning_point
FieldNames == {"H_kOe", "H_Oe"}

\* the sample values drawn in Init: one negative, zero, one positive
Values == {-1, 0, 1}

\* the fractions a caller passes, as numerators over FractionDen: every multiple
\* of 1/FractionDen from -2/FractionDen to 1 + 2/FractionDen
Fractions == (-2)..(FractionDen + 2)

(* --------------------------------------------------------------- helpers *)

\* a frame under the RangeIndex
Frame(cols, rows) == [columns |-> cols, rows |-> rows, index |-> [i \in 1..Len(rows) |-> i - 1]]

Ok(v) == [status |-> "ok", error |-> "", value |-> v]

Raise(e) == [status |-> "raised", error |-> e, value |-> 0]

Abs(n) == IF n < 0 THEN -n ELSE n

\* Python's min(a, b)
Min2(a, b) == IF b < a THEN b ELSE a

\* a float quotient a / b
Quot(a, b) == [n |-> a, d |-> b]

Finite(q) == q.d # 0

\* the column as a sequence of cells, in positional order
Column(df, c) == [i \in 1..Len(df.rows) |-> df.rows[i][c]]

RECURSIVE SeqSum(_)
SeqSum(s) == IF s = <<>> THEN 0 ELSE s[1] + SeqSum(Tail(s))

SeqMin(s) == CHOOSE m \in {s[i] : i \in 1..Len(s)} : \A i \in 1..Len(s) : m <= s[i]

SeqMax(s) == CHOOSE m \in {s[i] : i \in 1..Len(s)} : \A i \in 1..Len(s) : m >= s[i]

\* Series.idxmin: the label of the first occurrence of the minimum
idxmin(df, c) ==
  LET s == Column(df, c)
  IN  df.index[CHOOSE i \in 1..Len(s) : /\ \A j \in 1..Len(s) : s[i] <= s[j]
                                        /\ \A j \in 1..(i - 1) : s[j] > s[i]]

\* one step of the insertion sort numpy's quicksort runs on short arrays:
\* r goes behind every row whose key is not larger (rows of equal key keep
\* their order)
RECURSIVE InsertRow(_, _, _)
InsertRow(sorted, r, by) ==
  IF sorted = <<>> THEN <<r>>
  ELSE IF sorted[Len(sorted)][by] <= r[by] THEN Append(sorted, r)
  ELSE Append(InsertRow(SubSeq(sorted, 1, Len(sorted) - 1), r, by), sorted[Len(sorted)])

\* DataFrame.sort_values(by=..., ascending=True).reset_index(drop=True)
RECURSIVE sort_values(_, _)
sort_values(rows, by) ==
  IF rows = <<>> THEN <<>>
  ELSE InsertRow(sort_values(SubSeq(rows, 1, Len(rows) - 1), by), rows[Len(rows)], by)

\* int(round(q)) for q = n / d, d > 0: Python rounds halves to the even integer
PyRound(n, d) ==
  LET q == n \div d
      r == n - q * d
  IN  IF 2 * r < d THEN q
      ELSE IF 2 * r > d THEN q + 1
      ELSE IF q % 2 = 0 THEN q ELSE q + 1

\* int(round(fraction * (length - 1)))
FractionIndex(fraction, length) == PyRound(fraction * (length - 1), FractionDen)

(* ------------------------------------------------------------ preprocess *)

split_dataframe_at_turning_point(df, target_col) ==
  IF target_col \notin df.columns THEN Raise("KeyError")
  ELSE IF df.rows = <<>> THEN Raise("ValueError")
  ELSE LET turning_index == idxmin(df, target_col)
           \* df.iloc[:turning_index + 1] and df.iloc[turning_index + 1:]: the
           \* label is read as a position, and a slice ends with the frame
           before == SubSeq(df.rows, 1, Min2(turning_index + 1, Len(df.rows)))
           after == SubSeq(df.rows, turning_index + 2, Len(df.rows))
       IN  Ok(<<Frame(df.columns, sort_values(before, target_col)),
                Frame(df.columns, sort_values(after, target_col))>>)

\* a missing cell (NaN) is the empty sequence, a defined cell v is <<v>>
NaN == <<>>

RECURSIVE SortedSeq(_)
\* sorted(set): the members of S in ascending order
SortedSeq(S) ==
  IF S = {} THEN <<>>
  ELSE LET m == CHOOSE a \in S : \A b \in S : a <= b
       IN  <<m>> \o SortedSeq(S \ {m})

\* pd.concat([df1, df2], ignore_index=True): a column one frame lacks is NaN there
concat(a, b) ==
  LET cols == a.columns \cup b.columns
      widen(r) == [c \in cols |-> IF c \in DOMAIN r THEN r[c] ELSE NaN]
  IN  Frame(cols, [i \in 1..(Len(a.rows) + Len(b.rows)) |->
                     IF i <= Len(a.rows) THEN widen(a.rows[i])
                     ELSE widen(b.rows[i - Len(a.rows)])])

merge_dataframes(a, b) ==
  LET both == concat(a, b)
  IN  IF "H_kOe" \notin both.columns THEN Raise("KeyError")
      ELSE Ok(Frame(both.columns, sort_values(both.rows, "H_kOe")))

\* set_index(x_col).reindex(common_x_values): the value cell at each grid point
reindex(df, grid, x_col, y_col) ==
  [i \in 1..Len(grid) |->
     LET at == {j \in 1..Len(df.rows) : df.rows[j][x_col] = grid[i]}
     IN  IF at = {} THEN NaN ELSE <<df.rows[CHOOSE j \in at : TRUE][y_col]>>]

\* interpolate(method="nearest", limit_direction="both"): scipy's interp1d on the
\* row positions; a tie goes to the lower position, and a position outside the
\* defined ones stays NaN
interpolate_nearest(cells) ==
  LET valid == {j \in 1..Len(cells) : cells[j] # NaN}
      dist(i, j) == IF i < j THEN j - i ELSE i - j
  IN  [i \in 1..Len(cells) |->
         IF cells[i] # NaN \/ valid = {} THEN cells[i]
         ELSE IF (\A j \in valid : j > i) \/ (\A j \in valid : j < i) THEN NaN
         ELSE cells[CHOOSE j \in valid :
                      \A k \in valid : \/ dist(i, j) < dist(i, k)
                                       \/ dist(i, j) = dist(i, k) /\ j <= k]]

ffill(cells) ==
  [i \in 1..Len(cells) |->
     LET before == {j \in 1..i : cells[j] # NaN}
     IN  IF before = {} THEN NaN ELSE cells[CHOOSE j \in before : \A k \in before : k <= j]]

bfill(cells) ==
  [i \in 1..Len(cells) |->
     LET after == {j \in i..Len(cells) : cells[j] # NaN}
     IN  IF after = {} THEN NaN ELSE cells[CHOOSE j \in after : \A k \in after : j <= k]]

\* the Series a step returns: pandas computes its cells once, before the next
\* step reads any of them (comparing the cells makes TLC compute them here too)
Series(cells) == IF cells = <<>> THEN <<>> ELSE cells

HasDuplicates(s) == \E i, j \in 1..Len(s) : i < j /\ s[i] = s[j]

\* the inner interpolate_and_fill_df; of the frame it returns, x_col and y_col
\* are kept here: no caller reads another column of it
interpolate_and_fill_df(df, grid, x_col, y_col) ==
  LET reindexed == Series(reindex(df, grid, x_col, y_col))
      interpolated == Series(interpolate_nearest(reindexed))
      filled == Series(bfill(Series(ffill(interpolated))))
  IN  Frame({x_col, y_col},
            [i \in 1..Len(grid) |-> (x_col :> grid[i]) @@ (y_col :> filled[i])])

interpolate_and_fill(a, b, x_col, y_col) ==
  IF x_col \notin a.columns \/ x_col \notin b.columns THEN Raise("KeyError")
  ELSE LET xa == Column(a, x_col)
           xb == Column(b, x_col)
           common_x_values ==
             SortedSeq({xa[i] : i \in 1..Len(xa)} \cup {xb[i] : i \in 1..Len(xb)})
       IN  IF HasDuplicates(xa) \/ HasDuplicates(xb) THEN Raise("ValueError")
           ELSE IF y_col \notin a.columns \/ y_col \notin b.columns THEN Raise("KeyError")
           ELSE Ok(<<interpolate_and_fill_df(a, common_x_values, x_col, y_col),
                     interpolate_and_fill_df(b, common_x_values, x_col, y_col)>>)

(* -------------------------------------------------------------- features *)

\* np.random.RandomState(42).permutation(n), as 1-based positions: DataFrame.sample
\* (k, random_state=42) takes the rows at its first k entries (MT19937 seeded with
\* 42, numpy's legacy shuffle)
Permutation42(n) ==
  CASE n = 0 -> <<>>
    [] n = 1 -> <<1>>
    [] n = 2 -> <<2, 1>>
    [] n = 3 -> <<1, 2, 3>>
    [] n = 4 -> <<2, 4, 1, 3>>
    [] n = 5 -> <<2, 5, 3, 1, 4>>
    [] n = 6 -> <<1, 2, 6, 3, 5, 4>>
    [] n = 7 -> <<1, 2, 6, 3, 5, 4, 7>>
    [] n = 8 -> <<2, 6, 1, 8, 3, 5, 4, 7>>

\* Series.sample(k, random_state=42)
sample(s, k) == [i \in 1..k |-> s[Permutation42(Len(s))[i]]]

\* compute_pseudo_area_random_sampling down-sampling the upper branch only: a
\* larger lower branch is summed whole
compute_pseudo_area_upper_only(df_upper, df_lower, y_col) ==
  IF y_col \notin df_upper.columns \/ y_col \notin df_lower.columns THEN Raise("KeyError")
  ELSE LET upper == Column(df_upper, y_col)
           lower == Column(df_lower, y_col)
           N_min == Min2(Len(upper), Len(lower))
           y_min == IF N_min = 0 THEN 0 ELSE Min2(SeqMin(upper), SeqMin(lower))
           norm(s) == [i \in 1..Len(s) |-> s[i] - y_min]
           upper_sampled == IF Len(upper) > Len(lower) THEN sample(norm(upper), N_min)
                            ELSE norm(upper)
       IN  Ok(Abs(SeqSum(upper_sampled) - SeqSum(norm(lower))))

\* The values are shifted by y_min before they are summed.  With an empty branch
\* N_min is 0, both sums run over no rows, and y_min (nan, or the other branch's
\* minimum) reaches no sum.
compute_pseudo_area_random_sampling(df_upper, df_lower, y_col) ==
  IF y_col \notin df_upper.columns \/ y_col \notin df_lower.columns THEN Raise("KeyError")
  ELSE LET upper == Column(df_upper, y_col)
           lower == Column(df_lower, y_col)
           N_upper == Len(upper)
           N_lower == Len(lower)
           N_min == Min2(N_upper, N_lower)
           y_min == IF N_min = 0 THEN 0 ELSE Min2(SeqMin(upper), SeqMin(lower))
           norm(s) == [i \in 1..Len(s) |-> s[i] - y_min]
           upper_sampled == IF N_upper > N_lower THEN sample(norm(upper), N_min)
                            ELSE norm(upper)
           lower_sampled == IF N_upper > N_lower THEN norm(lower)
                            ELSE sample(norm(lower), N_min)
       IN  Ok(Abs(SeqSum(upper_sampled) - SeqSum(lower_sampled)))

\* Series.pct_change: nan first, then (current - previous) / previous
pct_change(s) ==
  [i \in 1..Len(s) |-> IF i = 1 THEN Quot(0, 0) ELSE Quot(s[i] - s[i - 1], s[i - 1])]

IsNaN(q) == q.n = 0 /\ q.d = 0

RECURSIVE SeqProd(_)
SeqProd(s) == IF s = <<>> THEN 1 ELSE s[1] * SeqProd(Tail(s))

\* mean and var (ddof = 1) of the change rates, nan skipped; an infinite rate
\* makes both non-finite
RateStats(rates) ==
  LET kept == SelectSeq(rates, LAMBDA q : ~IsNaN(q))
      k == Len(kept)
      D == SeqProd([i \in 1..k |-> kept[i].d])
      m == [i \in 1..k |-> IF D = 0 THEN 0 ELSE kept[i].n * (D \div kept[i].d)]
      total == SeqSum(m)
      squares == SeqSum([i \in 1..k |-> m[i] * m[i]])
  IN  <<IF k = 0 THEN Quot(0, 0) ELSE Quot(total, D * k),
        IF k < 2 THEN Quot(0, 0) ELSE Quot(k * squares - total * total, D * D * k * (k - 1))>>

\* The frame after df["change_rate"] = df[column_name].pct_change(), and the
\* returned (mean, var)
compute_change_rate_stats(df, column_name) ==
  IF column_name \notin df.columns THEN [frame |-> df, result |-> Raise("KeyError")]
  ELSE LET rates == pct_change(Column(df, column_name))
       IN  [frame |-> [columns |-> df.columns \cup {"change_rate"},
                       rows |-> [i \in 1..Len(df.rows) |->
                                   [c \in df.columns \cup {"change_rate"} |->
                                      IF c = "change_rate" THEN rates[i] ELSE df.rows[i][c]]],
                       index |-> df.index],
            result |-> Ok(RateStats(rates))]

sign(v) == IF v < 0 THEN -1 ELSE IF v > 0 THEN 1 ELSE 0

\* len(np.where(np.diff(np.sign(df[y_column])))[0])
crossings(s) == Cardinality({i \in 1..(Len(s) - 1) : sign(s[i + 1]) - sign(s[i]) # 0})

\* the crossings counted over the two value columns joined end to end
compute_zero_crossings_joined(a, b, y_col) ==
  IF y_col \notin a.columns \/ y_col \notin b.columns THEN Raise("KeyError")
  ELSE Ok(crossings(Column(a, y_col) \o Column(b, y_col)))

compute_zero_crossings(a, b, y_col) ==
  IF y_col \notin a.columns \/ y_col \notin b.columns THEN Raise("KeyError")
  ELSE Ok(crossings(Column(a, y_col)) + crossings(Column(b, y_col)))

compute_range(a, b, y_col) ==
  LET merged == merge_dataframes(a, b)
  IN  IF merged.status = "raised" THEN merged
      ELSE IF y_col \notin merged.value.columns THEN Raise("KeyError")
      ELSE IF merged.value.rows = <<>> THEN Ok(Quot(0, 0))
      ELSE Ok(Quot(SeqMax(Column(merged.value, y_col)) - SeqMin(Column(merged.value, y_col)), 1))

\* np.gradient(y, x)[i]: one-sided differences at the two ends, and inside the
\* second-order difference, on the uniform step when all steps are equal
gradient(y, x, i) ==
  LET n == Len(y)
      dx == [j \in 1..(n - 1) |-> x[j + 1] - x[j]]
      uniform == \A j \in 1..(n - 1) : dx[j] = dx[1]
  IN  IF i = 1 THEN Quot(y[2] - y[1], dx[1])
      ELSE IF i = n THEN Quot(y[n] - y[n - 1], dx[n - 1])
      ELSE IF uniform THEN Quot(y[i + 1] - y[i - 1], 2 * dx[1])
      ELSE LET dx1 == dx[i - 1]
               dx2 == dx[i]
           IN  Quot(dx1 * dx1 * y[i + 1] + (dx2 * dx2 - dx1 * dx1) * y[i] - dx2 * dx2 * y[i - 1],
                    dx1 * dx2 * (dx1 + dx2))

nunique(s) == Cardinality({s[i] : i \in 1..Len(s)})

\* the 1-based position a 0-based index reads in a sequence of n, 0 when out of bounds
Position(index, n) ==
  IF 0 <= index /\ index < n THEN index + 1
  ELSE IF -n <= index /\ index < 0 THEN n + index + 1
  ELSE 0

\* get_gradient_at_fraction without the early return for a flat value column
get_gradient_at_fraction_no_flat(df, fraction, x_col, y_col) ==
  IF y_col \notin df.columns \/ x_col \notin df.columns THEN Raise("KeyError")
  ELSE LET index == FractionIndex(fraction, Len(df.rows))
           at == Position(index, Len(df.rows))
       IN  IF Len(df.rows) < 2 THEN Raise("ValueError")
           ELSE IF at = 0 THEN Raise("IndexError")
           ELSE Ok(gradient(Column(df, y_col), Column(df, x_col), at))

get_gradient_at_fraction(df, fraction, x_col, y_col) ==
  IF y_col \notin df.columns THEN Raise("KeyError")
  ELSE IF nunique(Column(df, y_col)) = 1 THEN Ok(Quot(0, 1))
  ELSE IF x_col \notin df.columns THEN Raise("KeyError")
  ELSE LET index == FractionIndex(fraction, Len(df.rows))
           at == Position(index, Len(df.rows))
       IN  IF Len(df.rows) < 2 THEN Raise("ValueError")
           ELSE IF at = 0 THEN Raise("IndexError")
           ELSE Ok(gradient(Column(df, y_col), Column(df, x_col), at))

\* df.iloc[int(round(fraction * (len(df) - 1)))][y_col]: the position read, 0
\* when iloc raises IndexError
IlocAt(df, fraction) == Position(FractionIndex(fraction, Len(df.rows)), Len(df.rows))

compute_y_deviation(a, b, x_col, y_col, fraction) ==
  LET filled == interpolate_and_fill(a, b, x_col, y_col)
  IN  IF filled.status = "raised" THEN filled
      ELSE LET df1_filled == filled.value[1]
               df2_filled == filled.value[2]
               at1 == IlocAt(df1_filled, fraction)
               at2 == IlocAt(df2_filled, fraction)
           IN  IF at1 = 0 \/ at2 = 0 THEN Raise("IndexError")
               ELSE LET y_df1 == df1_filled.rows[at1][y_col]
                        y_df2 == df2_filled.rows[at2][y_col]
                    IN  IF y_df1 = NaN \/ y_df2 = NaN THEN Ok(Quot(0, 0))
                        ELSE Ok(Quot(Abs(y_df1[1] - y_df2[1]), 1))

\* Series.min(): the least defined cell, NaN when there is none
ColumnMin(df, c) ==
  LET defined == {df.rows[i][c][1] : i \in {j \in 1..Len(df.rows) : df.rows[j][c] # NaN}}
  IN  IF defined = {} THEN NaN ELSE <<CHOOSE m \in defined : \A v \in defined : m <= v>>

\* compute_y_ratio shifting both branches by the first branch's minimum alone
compute_y_ratio_min_first(a, b, x_col, y_col, fraction) ==
  LET filled == interpolate_and_fill(a, b, x_col, y_col)
  IN  IF filled.status = "raised" THEN filled
      ELSE LET df1_filled == filled.value[1]
               df2_filled == filled.value[2]
               min1 == ColumnMin(df1_filled, y_col)
               min2 == ColumnMin(df2_filled, y_col)
               at1 == IlocAt(df1_filled, fraction)
               at2 == IlocAt(df2_filled, fraction)
           IN  IF at1 = 0 \/ at2 = 0 THEN Raise("IndexError")
               ELSE IF min1 = NaN \/ min2 = NaN THEN Ok(Quot(0, 0))
               ELSE LET y_min == min1[1]
                        y_df1 == df1_filled.rows[at1][y_col][1] - y_min
                        y_df2 == df2_filled.rows[at2][y_col][1] - y_min
                    IN  Ok(Quot(y_df1, IF Abs(y_df2) < epsilon THEN epsilon ELSE y_df2))

\* With an empty branch that branch's aligned cells are all NaN: y_min is nan
\* or the other branch's minimum, and the ratio is nan either way.
compute_y_ratio(a, b, x_col, y_col, fraction) ==
  LET filled == interpolate_and_fill(a, b, x_col, y_col)
  IN  IF filled.status = "raised" THEN filled
      ELSE LET df1_filled == filled.value[1]
               df2_filled == filled.value[2]
               min1 == ColumnMin(df1_filled, y_col)
               min2 == ColumnMin(df2_filled, y_col)
               at1 == IlocAt(df1_filled, fraction)
               at2 == IlocAt(df2_filled, fraction)
           IN  IF at1 = 0 \/ at2 = 0 THEN Raise("IndexError")
               ELSE IF min1 = NaN \/ min2 = NaN THEN Ok(Quot(0, 0))
               ELSE LET y_min == Min2(min1[1], min2[1])
                        y_df1 == df1_filled.rows[at1][y_col][1] - y_min
                        y_df2 == df2_filled.rows[at2][y_col][1] - y_min
                    IN  Ok(Quot(y_df1, IF Abs(y_df2) < epsilon THEN epsilon ELSE y_df2))

(* ----------------------------------------------------------------- state *)

Row(x_col, x, y) == (x_col :> x) @@ (y_column :> y)

RowsOver(x_col, n) ==
  { [i \in 1..n |-> Row(x_col, xy[i][1], xy[i][2])] :
      xy \in [1..n -> (0..MaxField) \X Values] }

\* the labels dropna() leaves on n rows when it removes at most MaxDropped rows
\* of the file: n increasing labels
Labels(n) ==
  { SortedSeq(kept) : kept \in {S \in SUBSET (0..(n + MaxDropped - 1)) : Cardinality(S) = n} }

RangeIndex(n) == [i \in 1..n |-> i - 1]

\* the sweeps of n rows process_csv returns, with the field column named x_col
CurvesOf(x_col, n) ==
  { [columns |-> {x_col, y_column}, rows |-> rows, index |-> idx] :
      rows \in RowsOver(x_col, n), idx \in Labels(n) }

\* those of files whose rows are all numeric: dropna() removes nothing
NumericCurvesOf(x_col, n) ==
  { [columns |-> {x_col, y_column}, rows |-> rows, index |-> RangeIndex(n)] :
      rows \in RowsOver(x_col, n) }

NoFrame == Frame({}, <<>>)

NoCall == [op |-> "none", first |-> 0, fraction |-> 0]

\* the sweeps of the two worked scenarios: fields [2,1,0,1,2] with values
\* [5,3,1,3,5], and a sweep whose branches carry the values [1,-1,1,-1] and [2,2,2]
ExampleCurve ==
  Frame({"H_Oe", y_column},
        <<Row("H_Oe", 2, 5), Row("H_Oe", 1, 3), Row("H_Oe", 0, 1),
          Row("H_Oe", 1, 3), Row("H_Oe", 2, 5)>>)

ExampleSweep ==
  Frame({"H_kOe", y_column},
        <<Row("H_kOe", 3, -1), Row("H_kOe", 2, 1), Row("H_kOe", 1, -1), Row("H_kOe", 0, 1),
          Row("H_kOe", 1, 2), Row("H_kOe", 2, 2), Row("H_kOe", 3, 2)>>)

\* the caller holds the sweep and has called nothing yet
Loaded ==
  /\ df1 = NoFrame
  /\ df2 = NoFrame
  /\ pc = "loaded"
  /\ call = NoCall
  /\ out = Ok(0)

Init ==
  /\ \/ \E x_col \in FieldNames, n \in 0..MaxLen : curve \in CurvesOf(x_col, n)
     \/ curve \in {ExampleCurve, ExampleSweep}
  /\ Loaded

InitNumeric ==
  /\ \/ \E x_col \in FieldNames, n \in 0..MaxLen : curve \in NumericCurvesOf(x_col, n)
     \/ curve \in {ExampleCurve, ExampleSweep}
  /\ Loaded

Split ==
  LET x_col == CHOOSE c \in curve.columns : c \in FieldNames
      r == split_dataframe_at_turning_point(curve, x_col)
  IN  /\ pc \in {"loaded", "split"}
      /\ call' = [op |-> "split", first |-> 0, fraction |-> 0]
      /\ out' = r
      /\ IF r.status = "ok"
           THEN df1' = r.value[1] /\ df2' = r.value[2] /\ pc' = "split"
           ELSE UNCHANGED <<df1, df2, pc>>
      /\ UNCHANGED curve

First(first) == IF first = 1 THEN df1 ELSE df2

Second(first) == IF first = 1 THEN df2 ELSE df1

\* the field column of a frame, which the caller names in every call
FieldOf(df) == CHOOSE c \in FieldNames : c \in df.columns

\* a call that leaves every table of the caller alone
Returns(op, first, fraction, r) ==
  /\ pc = "split"
  /\ call' = [op |-> op, first |-> first, fraction |-> fraction]
  /\ out' = r
  /\ pc' = "returned"
  /\ UNCHANGED <<curve, df1, df2>>

\* the caller takes the result and goes on to its next call
Continue ==
  /\ pc = "returned"
  /\ pc' = "split"
  /\ call' = NoCall
  /\ out' = Ok(0)
  /\ UNCHANGED <<curve, df1, df2>>

ChangeRateStats ==
  LET r == compute_change_rate_stats(curve, y_column)
  IN  /\ pc \in {"loaded", "split"}
      /\ curve' = r.frame
      /\ call' = [op |-> "change_rate_stats", first |-> 0, fraction |-> 0]
      /\ out' = r.result
      /\ UNCHANGED <<df1, df2, pc>>

Merge ==
  \E first \in {1, 2} :
    Returns("merge", first, 0, merge_dataframes(First(first), Second(first)))

Align ==
  \E first \in {1, 2} :
    Returns("align", first, 0,
            interpolate_and_fill(First(first), Second(first), FieldOf(df1), y_column))

PseudoArea ==
  \E first \in {1, 2} :
    Returns("pseudo_area", first, 0,
            compute_pseudo_area_random_sampling(First(first), Second(first), y_column))

ZeroCrossings ==
  \E first \in {1, 2} :
    Returns("zero_crossings", first, 0,
            compute_zero_crossings(First(first), Second(first), y_column))

Range ==
  \E first \in {1, 2} :
    Returns("range", first, 0, compute_range(First(first), Second(first), y_column))

Gradient ==
  \E first \in {1, 2}, fraction \in Fractions :
    Returns("gradient", first, fraction,
            get_gradient_at_fraction(First(first), fraction, FieldOf(df1), y_column))

YDeviation ==
  \E first \in {1, 2}, fraction \in Fractions :
    Returns("y_deviation", first, fraction,
            compute_y_deviation(First(first), Second(first), FieldOf(df1), y_column, fraction))

YRatio ==
  \E first \in {1, 2}, fraction \in Fractions :
    Returns("y_ratio", first, fraction,
            compute_y_ratio(First(first), Second(first), FieldOf(df1), y_column, fraction))

Next ==
  \/ Split
  \/ ChangeRateStats
  \/ Merge
  \/ Align
  \/ PseudoArea
  \/ ZeroCrossings
  \/ Range
  \/ Gradient
  \/ YDeviation
  \/ YRatio
  \/ Continue

Spec == Init /\ [][Next]_vars

\* the split alone, on every sweep
NextSplit == Split

SplitSpec == Init /\ [][NextSplit]_vars

\* one function at a time on the branches of a sweep: the sweep of an all-numeric
\* file is split and the function applied once

NextAlign == Split \/ Align

AlignSpec == InitNumeric /\ [][NextAlign]_vars

NextMerge == Split \/ Merge

MergeSpec == InitNumeric /\ [][NextMerge]_vars

NextPseudoArea == Split \/ PseudoArea

PseudoAreaSpec == InitNumeric /\ [][NextPseudoArea]_vars

NextZeroCrossings == Split \/ ZeroCrossings

ZeroCrossingsSpec == InitNumeric /\ [][NextZeroCrossings]_vars

NextGradient == Split \/ Gradient

GradientSpec == InitNumeric /\ [][NextGradient]_vars

NextYRatio == Split \/ YRatio

YRatioSpec == InitNumeric /\ [][NextYRatio]_vars

(* ---------------------------------------------------------------- claims *)

\* how often the row r occurs in the sequence of rows s
Count(s, r) == Cardinality({i \in 1..Len(s) : s[i] = r})

\* s and t hold the same rows, each as often
SameRows(s, t) ==
  /\ Len(s) = Len(t)
  /\ \A i \in 1..Len(s) : Count(s, s[i]) = Count(t, s[i])

Ascending(rows, c) == \A i \in 1..(Len(rows) - 1) : rows[i][c] <= rows[i + 1][c]

\* the position of the first occurrence of the least field value of the sweep
TurningPoint ==
  LET x == Column(curve, FieldOf(curve))
  IN  CHOOSE t \in 1..Len(x) : (\A j \in 1..Len(x) : x[t] <= x[j]) /\ (\A j \in 1..(t - 1) : x[j] # x[t])

\* C1: for every non-empty curve, split returns (before, after): before holds
\* exactly the samples at or before the first occurrence of the minimum field
\* value, after exactly the samples after it, so every sample is in exactly one
\* of the two, and both are ascending by the field column; fields [2,1,0,1,2]
\* with values [5,3,1,3,5] give before [(0,1),(1,3),(2,5)] and after [(1,3),(2,5)].
C1_SplitPartitions ==
  (call.op = "split" /\ curve.rows # <<>>) =>
    /\ out.status = "ok"
    /\ SameRows(out.value[1].rows, SubSeq(curve.rows, 1, TurningPoint))
    /\ SameRows(out.value[2].rows, SubSeq(curve.rows, TurningPoint + 1, Len(curve.rows)))
    /\ SameRows(out.value[1].rows \o out.value[2].rows, curve.rows)
    /\ Ascending(out.value[1].rows, FieldOf(curve))
    /\ Ascending(out.value[2].rows, FieldOf(curve))
    /\ curve = ExampleCurve =>
         /\ out.value[1].rows = <<Row("H_Oe", 0, 1), Row("H_Oe", 1, 3), Row("H_Oe", 2, 5)>>
         /\ out.value[2].rows = <<Row("H_Oe", 1, 3), Row("H_Oe", 2, 5)>>

\* the value columns of the two branches a call was given, in argument order
FirstValues == Column(First(call.first), y_column)

SecondValues == Column(Second(call.first), y_column)

FirstFields == Column(First(call.first), FieldOf(df1))

SecondFields == Column(Second(call.first), FieldOf(df1))

Members(s) == {s[i] : i \in 1..Len(s)}

InUnitInterval(fraction) == 0 <= fraction /\ fraction <= FractionDen

\* C2: for all pairs of branches, align returns two outputs of equal length,
\* the number of distinct field values of both branches combined, on a strictly
\* increasing field grid, with no undefined value in either value column.
C2_AlignTotal ==
  call.op = "align" =>
    /\ out.status = "ok"
    /\ \A k \in {1, 2} :
         /\ Len(out.value[k].rows) = Cardinality(Members(FirstFields) \cup Members(SecondFields))
         /\ \A i \in 1..(Len(out.value[k].rows) - 1) :
              out.value[k].rows[i][FieldOf(df1)] < out.value[k].rows[i + 1][FieldOf(df1)]
         /\ \A i \in 1..Len(out.value[k].rows) : out.value[k].rows[i][y_column] # NaN

\* C3: merge(a, b) yields a curve of length len(a) + len(b), ascending in the
\* field column, whatever the field column is called.
C3_MergeAnyFieldName ==
  call.op = "merge" =>
    /\ out.status = "ok"
    /\ Len(out.value.rows) = Len(df1.rows) + Len(df2.rows)
    /\ Ascending(out.value.rows, FieldOf(df1))

ShiftedAt(k) ==
  LET aligned == interpolate_and_fill(First(call.first), Second(call.first),
                                      FieldOf(df1), y_column).value[k]
  IN  aligned.rows[IlocAt(aligned, call.fraction)][y_column][1]
        - Min2(SeqMin(FirstValues), SeqMin(SecondValues))

TrueNumerator == ShiftedAt(1)

TrueDenominator == ShiftedAt(2)

\* C5: y_ratio never raises and never returns an infinite value for non-empty
\* branches and a fraction in [0,1]; with a denominator of magnitude below
\* epsilon the result is the numerator divided by epsilon.
C5_YRatioTotal ==
  (call.op = "y_ratio" /\ df1.rows # <<>> /\ df2.rows # <<>> /\ InUnitInterval(call.fraction)) =>
    /\ out.status = "ok"
    /\ Finite(out.value)
    /\ Abs(TrueDenominator) < epsilon => out.value = Quot(TrueNumerator, epsilon)

\* C6: no call changes a table of the caller: the sweep keeps its columns and
\* values through every call, and so do the branches through every call but
\* the split that makes them.
C6_InputsUntouched ==
  [][/\ curve' = curve
     /\ call'.op # "split" => (df1' = df1 /\ df2' = df2)]_vars

\* C7: gradient_at_fraction fails with InvalidInputError whenever the fraction
\* is outside [0,1] or the branch has fewer than 2 samples.
C7_GradientRejects ==
  (call.op = "gradient" /\ (~InUnitInterval(call.fraction) \/ Len(FirstValues) < 2)) =>
    /\ out.status = "raised"
    /\ out.error = "InvalidInputError"

\* C8: pseudo_area fails with InvalidInputError whenever a branch is empty.
C8_PseudoAreaRejectsEmpty ==
  (call.op = "pseudo_area" /\ (df1.rows = <<>> \/ df2.rows = <<>>)) =>
    /\ out.status = "raised"
    /\ out.error = "InvalidInputError"

\* C9: on a branch of at least 2 samples with a constant value column,
\* gradient_at_fraction returns exactly 0.0 for every fraction in [0,1],
\* whatever the field values.
C9_FlatGradientZero ==
  (/\ call.op = "gradient"
   /\ InUnitInterval(call.fraction)
   /\ Len(FirstValues) >= 2
   /\ Cardinality(Members(FirstValues)) = 1) =>
    /\ out.status = "ok"
    /\ out.value.n = 0
    /\ out.value.d # 0

\* a flat branch with a repeated field value
C9_Witness ==
  /\ call.op = "gradient"
  /\ InUnitInterval(call.fraction)
  /\ Len(FirstValues) >= 2
  /\ Cardinality(Members(FirstValues)) = 1
  /\ Cardinality(Members(FirstFields)) < Len(FirstFields)
  /\ out = Ok(Quot(0, 1))

SignClass(v) == IF v < 0 THEN "negative" ELSE IF v = 0 THEN "zero" ELSE "positive"

SignChanges(s) == Cardinality({i \in 1..(Len(s) - 1) : SignClass(s[i]) # SignClass(s[i + 1])})

\* C10: zero_crossings(a, b) is the number of adjacent pairs of differing sign
\* (negative, zero, positive) in a plus that in b; the pair across the boundary
\* of the two is not counted: [1,-1,1,-1] and [2,2,2] give 3.
C10_ZeroCrossingsPerBranch ==
  call.op = "zero_crossings" =>
    /\ out.status = "ok"
    /\ out.value = SignChanges(FirstValues) + SignChanges(SecondValues)
    /\ (FirstValues = <<1, -1, 1, -1>> /\ SecondValues = <<2, 2, 2>>) => out.value = 3

\* the scenario's branches, whose boundary pair (-1, 2) differs in sign
C10_Witness ==
  /\ call.op = "zero_crossings"
  /\ FirstValues = <<1, -1, 1, -1>>
  /\ SecondValues = <<2, 2, 2>>
  /\ out = Ok(3)

\* C11: whenever y_ratio returns, the numerator and the denominator it read at
\* the fractional index, shifted by the least value of both branches, are both
\* >= 0; epsilon stands in only for a denominator in [0, epsilon), never for a
\* negative one, and the returned ratio is never negative (an empty branch
\* gives nan, which is not negative either).
C11_RatioNonNegative ==
  (call.op = "y_ratio" /\ out.status = "ok") =>
    /\ out.value.n >= 0
    /\ out.value.d >= 0
    /\ (df1.rows # <<>> /\ df2.rows # <<>>) =>
         LET numerator == TrueNumerator
             denominator == TrueDenominator
         IN  /\ numerator >= 0
             /\ denominator >= 0
             /\ out.value.n = numerator
             /\ out.value.d > 0
             /\ out.value.d # denominator =>
                  (denominator < epsilon /\ out.value.d = epsilon)

\* a positive numerator over a denominator that is positive but below epsilon,
\* which epsilon replaced
C11_Witness ==
  /\ call.op = "y_ratio"
  /\ out.status = "ok"
  /\ df1.rows # <<>>
  /\ df2.rows # <<>>
  /\ TrueNumerator > 0
  /\ TrueDenominator = 1
  /\ out.value = Quot(TrueNumerator, epsilon)

====
